---------------------------- MODULE Spec2Model ----------------------------
(***************************************************************************)
(* A model of the MDEditor component (src/src/MDEditor.tsx): its view      *)
(* state, prop reconciliation, command handling and the scroll             *)
(* synchronisation between the text-input pane and the preview pane.       *)
(*                                                                         *)
(* Every event handler runs to completion on the UI thread, so each is one *)
(* action.  A setState issued inside a handler is batched by React: the    *)
(* handler keeps reading the old this.state, and the new state (and the    *)
(* re-render, and a setState callback) is committed before the next        *)
(* handler runs.                                                           *)
(***************************************************************************)
EXTENDS Integers, Sequences, FiniteSets

VARIABLES
    props,         \* this.props, defaultProps already applied
    state,         \* this.state: height, preview, fullscreen, value
    phase,         \* "constructed", "mounted", or "crashed" (componentDidMount threw)
    orchestrator,  \* this.commandOrchestrator: "undefined" or "bound"
    overflow,      \* document.body.style.overflow
    last,          \* what the handler that ran last did (calls it made, whether it threw)
    before,        \* props, state and overflow as they were when that handler started
    before2,       \* the same, one handler earlier, kept while 'fullscreen' commands follow each other
    textareaEl,    \* the text-input pane's scroll container (textarea.current.warp.current)
    previewEl,     \* the preview pane's scroll container (preview.current.mdp.current)
    leftScroll,    \* this.leftScroll
    pending,       \* scroll events the browser has queued for handleScroll
    lastScroll     \* what the last run of handleScroll saw and wrote

vars == <<props, state, phase, orchestrator, overflow, last, before, before2,
          textareaEl, previewEl, leftScroll, pending, lastScroll>>

viewVars == <<props, state, phase, orchestrator, overflow, last, before, before2>>

scrollVars == <<textareaEl, previewEl, leftScroll, pending, lastScroll>>

---------------------------------------------------------------------------
(* Values *)

\* JavaScript's undefined, where a string is expected.
Undefined == "undefined"

\* MDEditorProps['preview']
Modes == {"edit", "live", "preview"}

\* Document texts.
Values == {"", "a"}

\* defaultProps.height, minHeight, maxHeight
DefaultHeight == 200

MinHeight == 100

MaxHeight == 1200

\* The heights the drag bar reports: it clamps to [minHeight, maxHeight] itself.
Heights == {MinHeight, DefaultHeight, MaxHeight}

\* What a parent may pass: each prop given or left undefined.
RawProps ==
    [preview : Modes \cup {Undefined},
     fullscreen : {"true", "false", Undefined},
     value : Values \cup {Undefined},
     onChange : BOOLEAN]

\* React fills an undefined prop from defaultProps before the component sees it.
WithDefaults(raw) ==
    [preview |-> IF raw.preview = Undefined THEN "live" ELSE raw.preview,
     fullscreen |-> IF raw.fullscreen = Undefined THEN FALSE ELSE raw.fullscreen = "true",
     value |-> IF raw.value = Undefined THEN "" ELSE raw.value,
     onChange |-> raw.onChange]

\* ICommand: a key and an optional value.  "bold" stands for the text commands.
Commands ==
    [keyCommand : {"bold", "preview", "fullscreen"},
     value : Modes \cup {Undefined, "foo"}]

NoCommand == [keyCommand |-> "none", value |-> Undefined]

\* The constructor: state is copied from the props.
InitialState(p) ==
    [height |-> DefaultHeight,
     preview |-> p.preview,
     fullscreen |-> p.fullscreen,
     value |-> p.value]

Snapshot == [props |-> props, state |-> state, overflow |-> overflow]

NoSnapshot ==
    [props |-> WithDefaults([preview |-> Undefined, fullscreen |-> Undefined,
                             value |-> Undefined, onChange |-> FALSE]),
     state |-> InitialState(WithDefaults([preview |-> Undefined, fullscreen |-> Undefined,
                                          value |-> Undefined, onChange |-> FALSE])),
     overflow |-> "none"]

Idle ==
    [op |-> "none", cmd |-> NoCommand, delegated |-> 0,
     rendered |-> <<>>, changed |-> <<>>, threw |-> FALSE]

---------------------------------------------------------------------------
(* render() *)

\* /(edit|live)/.test(this.state.preview as string): undefined is tested as the
\* text "undefined"; of the values here only "edit" and "live" contain a match.
RenderTextArea(mode) == mode \in {"edit", "live"}

\* <MarkdownPreview ref={this.preview}> is rendered in every mode.
RenderMarkdownPreview(mode) == TRUE

\* The class `${prefixCls}-show-${preview}`, added when preview is truthy.
ShowClass(mode) == IF mode = Undefined \/ mode = "" THEN "none" ELSE mode

\* The drag bar is rendered outside preview mode and fullscreen (visiableDragbar
\* at its default, true).
RenderDragBar(st) == st.preview # "preview" /\ ~st.fullscreen

\* The stylesheet (index.less): under show-edit the preview pane is hidden,
\* under show-preview the input pane is.
PaneHidden(pane, class) ==
    \/ pane = "preview" /\ class = "edit"
    \/ pane = "textarea" /\ class = "preview"

\* The panes a user sees.
VisiblePanes(st) ==
    {pane \in {"textarea", "preview"} :
        /\ pane = "textarea" => RenderTextArea(st.preview)
        /\ pane = "preview" => RenderMarkdownPreview(st.preview)
        /\ ~PaneHidden(pane, ShowClass(st.preview))}

---------------------------------------------------------------------------
(* handleChange *)

\* mdStr || ''
OrEmpty(mdStr) == IF mdStr = Undefined THEN "" ELSE mdStr

HandleChangeTwice(mdStr, onChange) ==
    [rendered |-> <<mdStr, mdStr>>,
     changed |-> IF onChange THEN <<OrEmpty(mdStr), OrEmpty(mdStr)>> ELSE <<>>]

\* this.preview.current!.renderHTML(mdStr); onChange && onChange(mdStr || '')
HandleChange(mdStr, onChange) ==
    [rendered |-> <<mdStr>>,
     changed |-> IF onChange THEN <<OrEmpty(mdStr)>> ELSE <<>>]

NoChange == [rendered |-> <<>>, changed |-> <<>>]

---------------------------------------------------------------------------
(* componentDidMount *)

\* handleChange(state.value) runs first; then this.textarea.current!.text is read.
\* With no TextArea rendered textarea.current is null and the read throws a
\* TypeError: React unmounts the tree and commandOrchestrator stays unset.
ComponentDidMount ==
    /\ phase = "constructed"
    /\ LET hc == HandleChange(state.value, props.onChange)
           ok == RenderTextArea(state.preview)
       IN /\ last' = [op |-> "componentDidMount", cmd |-> NoCommand, delegated |-> 0,
                      rendered |-> hc.rendered, changed |-> hc.changed, threw |-> ~ok]
          /\ phase' = IF ok THEN "mounted" ELSE "crashed"
          /\ orchestrator' = IF ok THEN "bound" ELSE orchestrator
    /\ before' = Snapshot
    /\ before2' = NoSnapshot
    /\ UNCHANGED <<props, state, overflow>>
    /\ UNCHANGED scrollVars

---------------------------------------------------------------------------
(* UNSAFE_componentWillReceiveProps *)

\* nextProps.x !== this.props.x
PropChanged(next, cur) == next # cur

ReconciledIgnoringPreview(next, cur, st) ==
    [height |-> st.height,
     preview |-> st.preview,
     fullscreen |-> IF PropChanged(next.fullscreen, cur.fullscreen)
                    THEN next.fullscreen ELSE st.fullscreen,
     value |-> IF PropChanged(next.value, cur.value) THEN next.value ELSE st.value]

\* The state after the three setState calls.
Reconciled(next, cur, st) ==
    [height |-> st.height,
     preview |-> IF PropChanged(next.preview, cur.preview) THEN next.preview ELSE st.preview,
     fullscreen |-> IF PropChanged(next.fullscreen, cur.fullscreen)
                    THEN next.fullscreen ELSE st.fullscreen,
     value |-> IF PropChanged(next.value, cur.value) THEN next.value ELSE st.value]

\* The parent re-renders with nextProps.  The setState callback of the value
\* branch runs after the commit, when this.props is already nextProps.
ReceiveProps ==
    /\ phase = "mounted"
    /\ \E raw \in RawProps :
         LET next == WithDefaults(raw)
             hc == IF PropChanged(next.value, props.value)
                   THEN HandleChange(next.value, next.onChange)
                   ELSE NoChange
         IN /\ state' = Reconciled(next, props, state)
            /\ props' = next
            /\ last' = [op |-> "receiveProps", cmd |-> NoCommand, delegated |-> 0,
                        rendered |-> hc.rendered, changed |-> hc.changed, threw |-> FALSE]
    /\ before' = Snapshot
    /\ before2' = NoSnapshot
    /\ UNCHANGED <<phase, orchestrator, overflow>>
    /\ UNCHANGED scrollVars

---------------------------------------------------------------------------
(* handleCommand *)

DelegatesUnlessIntercepted(cmd) == cmd.keyCommand \notin {"preview", "fullscreen"}

\* this.commandOrchestrator.executeCommand(command) ends handleCommand on every
\* path: neither if-branch returns.
Delegates(cmd) == TRUE

\* document.body.style.overflow = this.state.fullscreen ? 'initial' : 'hidden',
\* this.state being the state the handler started with.
OverflowAfterToggle(fullscreen) == IF fullscreen THEN "initial" ELSE "hidden"

\* The state after the handler's setState calls.
Commanded(cmd, st) ==
    [height |-> st.height,
     preview |-> IF cmd.keyCommand = "preview" THEN cmd.value ELSE st.preview,
     fullscreen |-> IF cmd.keyCommand = "fullscreen" THEN ~st.fullscreen ELSE st.fullscreen,
     value |-> st.value]

\* A toolbar button is clicked.  With commandOrchestrator unset the last line
\* throws a TypeError.
HandleCommand ==
    /\ phase = "mounted"
    /\ \E cmd \in Commands :
         /\ state' = Commanded(cmd, state)
         /\ overflow' = IF cmd.keyCommand = "fullscreen"
                        THEN OverflowAfterToggle(state.fullscreen)
                        ELSE overflow
         /\ last' = [op |-> "handleCommand", cmd |-> cmd,
                     delegated |-> IF Delegates(cmd) /\ orchestrator = "bound" THEN 1 ELSE 0,
                     rendered |-> <<>>, changed |-> <<>>,
                     threw |-> Delegates(cmd) /\ orchestrator # "bound"]
         /\ before2' = IF cmd.keyCommand = "fullscreen" /\ last.op = "handleCommand"
                          /\ last.cmd.keyCommand = "fullscreen"
                       THEN before ELSE NoSnapshot
    /\ before' = Snapshot
    /\ UNCHANGED <<props, phase, orchestrator>>
    /\ UNCHANGED scrollVars

---------------------------------------------------------------------------
(* The drag bar and the text input *)

\* DragBar onChange: this.setState({ height: newHeight })
DragBarChange ==
    /\ phase = "mounted"
    /\ RenderDragBar(state)
    /\ \E h \in Heights : state' = [state EXCEPT !.height = h]
    /\ last' = [Idle EXCEPT !.op = "dragBarChange"]
    /\ before' = Snapshot
    /\ before2' = NoSnapshot
    /\ UNCHANGED <<props, phase, orchestrator, overflow>>
    /\ UNCHANGED scrollVars

\* The user types: TextArea calls handleChange with the new text.  The text is
\* rendered and reported; this.state.value is not touched.
TextAreaChange ==
    /\ phase = "mounted"
    /\ RenderTextArea(state.preview)
    /\ \E v \in Values :
         LET hc == HandleChange(v, props.onChange)
         IN last' = [op |-> "textAreaChange", cmd |-> NoCommand, delegated |-> 0,
                     rendered |-> hc.rendered, changed |-> hc.changed, threw |-> FALSE]
    /\ before' = Snapshot
    /\ before2' = NoSnapshot
    /\ UNCHANGED <<props, state, phase, orchestrator, overflow>>
    /\ UNCHANGED scrollVars

---------------------------------------------------------------------------
(* Numbers, as handleScroll computes with them *)

\* JavaScript numbers are modelled in fixed point: a finite number is a count of
\* 1/Unit, every division and multiplication rounds to the nearest count, and
\* NaN and Infinity are values of their own.  (No negative number arises:
\* scroll offsets and scrollable ranges are >= 0 here.)
Unit == 64

Num(n) == [kind |-> "num", n |-> n]

NaN == [kind |-> "NaN", n |-> 0]

Infinity == [kind |-> "Infinity", n |-> 0]

FromInt(i) == Num(i * Unit)

\* a / b rounded to the nearest integer, for a >= 0 and b > 0.
RoundDiv(a, b) == (2 * a + b) \div (2 * b)

\* a / b
JsDiv(a, b) ==
    IF a.kind = "NaN" \/ b.kind = "NaN" THEN NaN
    ELSE IF a.kind = "Infinity" THEN (IF b.kind = "Infinity" THEN NaN ELSE Infinity)
    ELSE IF b.kind = "Infinity" THEN Num(0)
    ELSE IF b.n = 0 THEN (IF a.n = 0 THEN NaN ELSE Infinity)
    ELSE Num(RoundDiv(a.n * Unit, b.n))

\* a * b
JsMul(a, b) ==
    IF a.kind = "NaN" \/ b.kind = "NaN" THEN NaN
    ELSE IF a.kind = "Infinity" THEN (IF b.kind = "num" /\ b.n = 0 THEN NaN ELSE Infinity)
    ELSE IF b.kind = "Infinity" THEN (IF a.n = 0 THEN NaN ELSE Infinity)
    ELSE Num(RoundDiv(a.n * b.n, Unit))

---------------------------------------------------------------------------
(* The two scroll containers *)

\* The largest scrollable range (scrollHeight - offsetHeight) of a pane.
MaxRange == 3

\* The panes' visible height.
OffsetHeight == 2

\* The most scroll events queued at once, and the longest causal chain counted.
MaxPending == 2

MaxDepth == 2

Panes == {"textarea", "preview"}

ScrollHeights == OffsetHeight .. (OffsetHeight + MaxRange)

Element(h) == [scrollHeight |-> h, offsetHeight |-> OffsetHeight, scrollTop |-> 0]

\* scrollHeight - offsetHeight.  The panes carry no border, so this is also the
\* largest scroll offset the browser allows.
Range(el) == el.scrollHeight - el.offsetHeight

Clamp(x, lo, hi) == IF x < lo THEN lo ELSE IF x > hi THEN hi ELSE x

\* el.scrollTop = v, as the DOM performs it: a non-finite value counts as 0, the
\* offset is kept in whole pixels and within the scrollable range.
SetScrollTop(el, v) ==
    [el EXCEPT !.scrollTop =
        IF v.kind # "num" THEN 0 ELSE Clamp(v.n \div Unit, 0, Range(el))]

\* A scroll event: its target, how many programmatic writes lie between it and
\* the user's gesture (or layout change) it goes back to, and whether leftScroll
\* has kept its value since then.
Event(pane, depth, stable) == [target |-> pane, depth |-> depth, stable |-> stable]

NoScroll ==
    [op |-> "none", target |-> "none", depth |-> 0, stable |-> TRUE, flag |-> FALSE,
     refs |-> FALSE, tRange |-> 0, pRange |-> 0, srcTop |-> 0, writes |-> <<>>]

\* this.textarea.current and this.preview.current (with their inner refs) are set
\* while the component they point at is rendered.
RefsAvailable == RenderTextArea(state.preview) /\ RenderMarkdownPreview(state.preview)

Mounted(pane) ==
    IF pane = "textarea" THEN RenderTextArea(state.preview)
    ELSE RenderMarkdownPreview(state.preview)

El(pane) == IF pane = "textarea" THEN textareaEl ELSE previewEl

\* Append a scroll event for `pane` when its offset moved.
Fired(queue, pane, old, new, depth, stable) ==
    IF old.scrollTop # new.scrollTop THEN Append(queue, Event(pane, depth, stable))
    ELSE queue

---------------------------------------------------------------------------
(* The user and the browser *)

\* The user scrolls a pane (wheel, keyboard or scrollbar) to offset y.
UserScroll ==
    /\ phase = "mounted"
    /\ Len(pending) < MaxPending
    /\ \E pane \in Panes :
         /\ Mounted(pane)
         /\ \E y \in 0 .. Range(El(pane)) :
              /\ y # El(pane).scrollTop
              /\ textareaEl' = IF pane = "textarea"
                               THEN [textareaEl EXCEPT !.scrollTop = y] ELSE textareaEl
              /\ previewEl' = IF pane = "preview"
                              THEN [previewEl EXCEPT !.scrollTop = y] ELSE previewEl
              /\ pending' = Append(pending, Event(pane, 0, TRUE))
    /\ lastScroll' = NoScroll
    /\ UNCHANGED leftScroll
    /\ UNCHANGED viewVars

\* A pane's content grows or shrinks (text typed, preview re-rendered).  The
\* browser keeps the offset within the new range and fires a scroll event when
\* it had to move it.
Relayout ==
    /\ phase = "mounted"
    /\ Len(pending) < MaxPending
    /\ \E pane \in Panes, h \in ScrollHeights :
         /\ Mounted(pane)
         /\ h # El(pane).scrollHeight
         /\ LET new == [El(pane) EXCEPT !.scrollHeight = h,
                                        !.scrollTop = Clamp(@, 0, h - El(pane).offsetHeight)]
            IN /\ textareaEl' = IF pane = "textarea" THEN new ELSE textareaEl
               /\ previewEl' = IF pane = "preview" THEN new ELSE previewEl
               /\ pending' = Fired(pending, pane, El(pane), new, 0, TRUE)
    /\ lastScroll' = NoScroll
    /\ UNCHANGED leftScroll
    /\ UNCHANGED viewVars

Unsettled(queue, changed) ==
    [i \in DOMAIN queue |-> [queue[i] EXCEPT !.stable = @ /\ ~changed]]

\* onMouseOver={() => this.leftScroll = true}
MouseOver ==
    /\ phase = "mounted"
    /\ RenderTextArea(state.preview)
    /\ leftScroll' = TRUE
    /\ pending' = Unsettled(pending, ~leftScroll)
    /\ lastScroll' = NoScroll
    /\ UNCHANGED <<textareaEl, previewEl>>
    /\ UNCHANGED viewVars

\* onMouseLeave={() => this.leftScroll = false}
MouseLeave ==
    /\ phase = "mounted"
    /\ RenderTextArea(state.preview)
    /\ leftScroll' = FALSE
    /\ pending' = Unsettled(pending, leftScroll)
    /\ lastScroll' = NoScroll
    /\ UNCHANGED <<textareaEl, previewEl>>
    /\ UNCHANGED viewVars

---------------------------------------------------------------------------
(* handleScroll *)

ScaleInverted(textarea, preview) ==
    JsDiv(FromInt(preview.scrollHeight - preview.offsetHeight),
          FromInt(textarea.scrollHeight - textarea.offsetHeight))

\* const scale = (textarea.scrollHeight - textarea.offsetHeight)
\*             / (preview.scrollHeight - preview.offsetHeight)
Scale(textarea, preview) ==
    JsDiv(FromInt(textarea.scrollHeight - textarea.offsetHeight),
          FromInt(preview.scrollHeight - preview.offsetHeight))

\* e.target === textarea && this.leftScroll
DrivesPreview(target, flag) == target = "textarea" /\ flag

DrivesTextareaUnguarded(target, flag) == target = "preview"

\* e.target === preview && !this.leftScroll
DrivesTextarea(target, flag) == target = "preview" /\ ~flag

\* The browser delivers the oldest queued scroll event.  A write that moves the
\* other pane makes the browser queue that pane's own scroll event.
HandleScroll ==
    /\ phase = "mounted"
    /\ pending # <<>>
    /\ LET e == Head(pending)
           scale == Scale(textareaEl, previewEl)
           toPreview == RefsAvailable /\ DrivesPreview(e.target, leftScroll)
           v1 == JsDiv(FromInt(textareaEl.scrollTop), scale)
           p1 == IF toPreview THEN SetScrollTop(previewEl, v1) ELSE previewEl
           toTextarea == RefsAvailable /\ DrivesTextarea(e.target, leftScroll)
           v2 == JsMul(FromInt(p1.scrollTop), scale)
           t1 == IF toTextarea THEN SetScrollTop(textareaEl, v2) ELSE textareaEl
           next == IF e.depth < MaxDepth THEN e.depth + 1 ELSE MaxDepth
           w1 == IF toPreview THEN <<[pane |-> "preview", val |-> v1]>> ELSE <<>>
           w2 == IF toTextarea THEN <<[pane |-> "textarea", val |-> v2]>> ELSE <<>>
       IN /\ previewEl' = p1
          /\ textareaEl' = t1
          /\ pending' = Fired(Fired(Tail(pending), "preview", previewEl, p1, next, e.stable),
                              "textarea", textareaEl, t1, next, e.stable)
          /\ lastScroll' =
               [op |-> "handleScroll", target |-> e.target, depth |-> e.depth,
                stable |-> e.stable, flag |-> leftScroll, refs |-> RefsAvailable,
                tRange |-> Range(textareaEl), pRange |-> Range(previewEl),
                srcTop |-> El(e.target).scrollTop, writes |-> w1 \o w2]
    /\ UNCHANGED leftScroll
    /\ UNCHANGED viewVars

---------------------------------------------------------------------------
(* Specifications *)

\* After construction, before componentDidMount.
Init ==
    /\ \E raw \in RawProps :
         /\ props = WithDefaults(raw)
         /\ state = InitialState(WithDefaults(raw))
    /\ phase = "constructed"
    /\ orchestrator = "undefined"
    /\ overflow = ""
    /\ last = Idle
    /\ before = NoSnapshot
    /\ before2 = NoSnapshot
    /\ textareaEl = Element(OffsetHeight)
    /\ previewEl = Element(OffsetHeight)
    /\ leftScroll = FALSE
    /\ pending = <<>>
    /\ lastScroll = NoScroll

Next ==
    \/ ComponentDidMount
    \/ ReceiveProps
    \/ HandleCommand
    \/ DragBarChange
    \/ TextAreaChange

Spec == Init /\ [][Next]_vars

\* A mounted editor (default props) in one of the three modes, which a 'preview'
\* command reaches from the default mode, with panes of any content height.
InitScroll ==
    /\ props = WithDefaults([preview |-> Undefined, fullscreen |-> Undefined,
                             value |-> Undefined, onChange |-> FALSE])
    /\ \E mode \in Modes : state = [InitialState(props) EXCEPT !.preview = mode]
    /\ phase = "mounted"
    /\ orchestrator = "bound"
    /\ overflow = ""
    /\ last = Idle
    /\ before = NoSnapshot
    /\ before2 = NoSnapshot
    /\ \E h \in ScrollHeights :
         textareaEl = IF RenderTextArea(state.preview) THEN Element(h)
                      ELSE Element(OffsetHeight)
    /\ \E h \in ScrollHeights : previewEl = Element(h)
    /\ leftScroll = FALSE
    /\ pending = <<>>
    /\ lastScroll = NoScroll

NextScroll ==
    \/ UserScroll
    \/ Relayout
    \/ MouseOver
    \/ MouseLeave
    \/ HandleScroll

SpecScroll == InitScroll /\ [][NextScroll]_vars

---------------------------------------------------------------------------
(* Properties *)

Near(a, b) == a - b \in -1 .. 1

WritesTo(pane) == {i \in DOMAIN lastScroll.writes : lastScroll.writes[i].pane = pane}

\* C1: with both scrollable ranges > 0, a scroll event from the driving pane at
\* its maximum offset makes handleScroll write the other pane's offset, which
\* ends at that pane's maximum (within one pixel of rounding); both directions.
C1_MaxDrivesMax ==
    (lastScroll.op = "handleScroll" /\ lastScroll.refs
        /\ lastScroll.tRange > 0 /\ lastScroll.pRange > 0) =>
      /\ (lastScroll.target = "textarea" /\ lastScroll.flag
            /\ lastScroll.srcTop = lastScroll.tRange) =>
           /\ WritesTo("preview") # {}
           /\ Near(previewEl.scrollTop, lastScroll.pRange)
      /\ (lastScroll.target = "preview" /\ ~lastScroll.flag
            /\ lastScroll.srcTop = lastScroll.pRange) =>
           /\ WritesTo("textarea") # {}
           /\ Near(textareaEl.scrollTop, lastScroll.tRange)

\* The editor, driving, was at its maximum of 2 and the preview, whose range is
\* 3, was written and stands within a pixel of its maximum.
C1_Witness ==
    /\ lastScroll.op = "handleScroll"
    /\ lastScroll.target = "textarea" /\ lastScroll.flag
    /\ lastScroll.tRange = 2 /\ lastScroll.srcTop = 2
    /\ lastScroll.pRange = 3
    /\ WritesTo("preview") # {}
    /\ Near(previewEl.scrollTop, 3)

\* C2: handleScroll writes no scrollTop when a ref is unavailable or a pane's
\* scrollable range is zero, and no write ever carries NaN or Infinity.
C2_DegenerateIsNoOp ==
    lastScroll.op = "handleScroll" =>
      /\ (~lastScroll.refs \/ lastScroll.tRange = 0 \/ lastScroll.pRange = 0) =>
           lastScroll.writes = <<>>
      /\ \A i \in DOMAIN lastScroll.writes : lastScroll.writes[i].val.kind = "num"

C4_DoubleToggleRestores ==
    (last.op = "handleCommand" /\ last.cmd.keyCommand = "fullscreen"
        /\ before2 # NoSnapshot) =>
      /\ state.fullscreen = before2.state.fullscreen
      /\ overflow = before2.overflow
      /\ state.preview = before2.state.preview
      /\ state.height = before2.state.height
      /\ state.value = before2.state.value

\* C5: a props update that changes `value` makes exactly one renderHTML call and
\* (a callback being supplied) exactly one onChange call, both with the new
\* value, state.value being the new value; one that keeps `value` makes neither.
C5_ValueChangeNotifiesOnce ==
    last.op = "receiveProps" =>
      IF before.props.value # props.value
      THEN /\ last.rendered = <<props.value>>
           /\ last.changed = IF props.onChange THEN <<props.value>> ELSE <<>>
           /\ state.value = props.value
      ELSE last.rendered = <<>> /\ last.changed = <<>>

\* The value prop went from "" to "a" with a callback supplied.
C5_Witness ==
    /\ last.op = "receiveProps"
    /\ before.props.value = "" /\ props.value = "a"
    /\ props.onChange
    /\ last.rendered = <<"a">> /\ last.changed = <<"a">>

ExpectedPanes(mode) ==
    IF mode = "edit" THEN {"textarea"}
    ELSE IF mode = "preview" THEN {"preview"}
    ELSE {"textarea", "preview"}

C7_ViewStateDefined ==
    phase = "mounted" =>
      /\ state.preview \in Modes
      /\ state.fullscreen \in BOOLEAN
      /\ state.value \in Values

\* C8: with no text input rendered, mounting and command execution raise no
\* error.
C8_NoTextInputNoError ==
    (last.op \in {"componentDidMount", "handleCommand"}
        /\ ~RenderTextArea(before.state.preview)) => ~last.threw

\* C9: handleScroll never writes the pane the event came from; it writes the
\* preview only for an editor event with leftScroll set, and the editor only for
\* a preview event with leftScroll clear; and while leftScroll keeps its value,
\* the event a write induces causes no further write, so a chain started by one
\* gesture holds at most one write.
C9_NoFeedback ==
    /\ lastScroll.op = "handleScroll" =>
         /\ WritesTo(lastScroll.target) = {}
         /\ WritesTo("preview") # {} => lastScroll.target = "textarea" /\ lastScroll.flag
         /\ WritesTo("textarea") # {} => lastScroll.target = "preview" /\ ~lastScroll.flag
         /\ (lastScroll.depth >= 1 /\ lastScroll.stable) => lastScroll.writes = <<>>
    /\ \A i \in DOMAIN pending : pending[i].stable => pending[i].depth <= 1

\* The scroll event induced by a programmatic write was handled, leftScroll
\* unchanged since the gesture, and wrote nothing.
C9_Witness ==
    /\ lastScroll.op = "handleScroll"
    /\ lastScroll.refs
    /\ lastScroll.depth = 1 /\ lastScroll.stable
    /\ lastScroll.tRange > 0 /\ lastScroll.pRange > 0
    /\ lastScroll.writes = <<>>

\* C10: while the editor is mounted, document.body.style.overflow is 'hidden'
\* exactly when the fullscreen flag is set.
C10_LockTracksFullscreen ==
    phase = "mounted" => (overflow = "hidden" <=> state.fullscreen)

===========================================================================
